---- MODULE Spec2Model ----
(***************************************************************************)
(* Model of molecular_complexity/complexity.py: the atom-path enumeration  *)
(* and the entropy scores CM, CM* and Cse of a hydrogen-explicit molecular *)
(* graph.  The external toolkit (parsing, hydrogen addition, the graph     *)
(* queries) is modelled by the graph it hands over.                        *)
(***************************************************************************)
EXTENDS Integers, Sequences, FiniteSets, TLC

VARIABLES pc, smiles, mol, atoms, neighbors, atom_paths, cas, i, cm, cm_star,
          atom_environments, fo_called, fo_data, fo_ret, result

vars == <<pc, smiles, mol, atoms, neighbors, atom_paths, cas, i, cm, cm_star,
          atom_environments, fo_called, fo_data, fo_ret, result>>

(***************************************************************************)
(* Bounds of the model.                                                    *)
(***************************************************************************)
\* atoms of an enumerated molecular graph
MaxAtoms == 4
\* bonds of an enumerated molecular graph
MaxBonds == 3
\* carbons of the largest unsubstituted saturated ring
MaxRing == 6
\* largest integer whose logarithm is taken: an atom of a graph of n atoms has
\* fewer than n * n paths, a ring carbon has 8, and no more environments than atoms
LogLimit == MaxAtoms * MaxAtoms + MaxRing

\* element symbols of the enumerated graphs
Symbols == {"C", "H"}

\* Python's ordering of the element symbols (str comparison)
SymRank(s) == IF s = "C" THEN 1 ELSE IF s = "H" THEN 2 ELSE 3

(***************************************************************************)
(* Generic helpers.                                                        *)
(***************************************************************************)
RECURSIVE PermSeqs(_)
PermSeqs(S) ==
    IF S = {} THEN {<<>>}
    ELSE UNION {{<<x>> \o s : s \in PermSeqs(S \ {x})} : x \in S}

RECURSIVE Flatten(_)
Flatten(ss) == IF ss = <<>> THEN <<>> ELSE Head(ss) \o Flatten(Tail(ss))

Range(s) == {s[k] : k \in 1..Len(s)}

Count(s, x) == Cardinality({k \in 1..Len(s) : s[k] = x})

\* two sequences hold the same elements with the same multiplicities
SameBag(s, t) ==
    /\ Len(s) = Len(t)
    /\ \A x \in Range(s) \cup Range(t) : Count(s, x) = Count(t, x)

(***************************************************************************)
(* The molecular graphs the toolkit can hand over: atoms 0..n-1 with an    *)
(* element symbol each, and per atom the ordered list of its bonded        *)
(* neighbours (symmetric, one entry per bonded neighbour, no self bond).   *)
(***************************************************************************)
NoMol == [none |-> TRUE, sym |-> <<>>, nbrs |-> <<>>]

AllBonds(n) == {e \in SUBSET (0..(n-1)) : Cardinality(e) = 2}

BondSets(n) == {E \in SUBSET AllBonds(n) : Cardinality(E) <= MaxBonds}

BondedTo(a, E) == {b \in UNION E : b # a /\ {a, b} \in E}

\* every way the toolkit may order the neighbour lists of atoms 0..k-1
RECURSIVE NeighborOrders(_, _)
NeighborOrders(k, E) ==
    IF k = 0 THEN {<<>>}
    ELSE {Append(s, p) : s \in NeighborOrders(k - 1, E),
                         p \in PermSeqs(BondedTo(k - 1, E))}

SmallMols ==
    UNION {UNION {{[none |-> FALSE, sym |-> sy, nbrs |-> nb] :
                      sy \in [1..n -> Symbols], nb \in NeighborOrders(n, E)} :
                  E \in BondSets(n)} :
           n \in 0..MaxAtoms}

\* the hydrogen-explicit saturated ring of n carbons: carbons 0..n-1, the two
\* hydrogens of carbon c at n+2c and n+2c+1 (hydrogens are appended after the
\* heavy atoms)
RingMol(n) ==
    [none |-> FALSE,
     sym  |-> [k \in 1..(3 * n) |-> IF k <= n THEN "C" ELSE "H"],
     nbrs |-> [k \in 1..(3 * n) |->
                 IF k <= n
                 THEN <<(k - 2 + n) % n, k % n, n + 2 * (k - 1), n + 2 * (k - 1) + 1>>
                 ELSE <<(k - 1 - n) \div 2>>]]

RingMols == {RingMol(n) : n \in 3..MaxRing}

IsRing(m) == \E n \in 3..MaxRing : m = RingMol(n)

\* a notation either fails to parse or denotes a graph
Notations ==
    {[valid |-> FALSE, graph |-> NoMol]}
    \cup {[valid |-> TRUE, graph |-> g] : g \in SmallMols \cup RingMols}

(***************************************************************************)
(* The toolkit's queries on a hydrogen-explicit graph.                     *)
(***************************************************************************)
NumAtoms(m) == Len(m.sym)

GetSymbol(m, idx) == m.sym[idx + 1]

GetNeighbors(m, idx) == m.nbrs[idx + 1]

GetTotalDegree(m, idx) == Len(GetNeighbors(m, idx))

\* hydrogens are explicit, so the total hydrogen count is the hydrogen neighbours
GetTotalNumHs(m, idx) ==
    Cardinality({k \in 1..Len(GetNeighbors(m, idx)) :
                    GetSymbol(m, GetNeighbors(m, idx)[k]) = "H"})

(***************************************************************************)
(* complexity.py                                                           *)
(***************************************************************************)
\* AtomType = (symbol, total degree, non-h degree)
get_atom_type(m, idx) ==
    LET symbol  == GetSymbol(m, idx)
        degree  == GetTotalDegree(m, idx)
        h_count == GetTotalNumHs(m, idx)
        non_h   == degree - h_count
    IN  <<symbol, degree, non_h>>

\* atoms = [(atom.GetIdx(), get_atom_type(atom)) for atom in mol.GetAtoms()]
AtomList(m) == [k \in 1..NumAtoms(m) |-> <<k - 1, get_atom_type(m, k - 1)>>]

\* the neighbour dict, as its items in insertion order
NeighborDict(m, ats) ==
    [k \in 1..Len(ats) |->
        [key |-> ats[k],
         val |-> [j \in 1..Len(GetNeighbors(m, ats[k][1])) |->
                     ats[GetNeighbors(m, ats[k][1])[j] + 1]]]]

\* neighbors[nb]
Lookup(data, key) == (CHOOSE it \in Range(data) : it.key = key).val

IsH(atom) == atom[2][1] = "H"

_non_h_items(data) == SelectSeq(data, LAMBDA it : ~IsH(it.key))

\* PathsVia with the root told from the second neighbours by type alone
PathsViaByType(data, atom, nb) ==
    IF IsH(nb) \/ Lookup(data, nb) = <<atom>>
    THEN << <<atom[2], nb[2]>> >>
    ELSE LET nbs2 == SelectSeq(Lookup(data, nb), LAMBDA nb2 : nb2[2] # atom[2])
         IN  [k \in 1..Len(nbs2) |-> <<atom[2], nb[2], nbs2[k][2]>>]

\* PathsVia that follows second neighbours of higher index only
PathsViaForward(data, atom, nb) ==
    IF IsH(nb) \/ Lookup(data, nb) = <<atom>>
    THEN << <<atom[2], nb[2]>> >>
    ELSE LET nbs2 == SelectSeq(Lookup(data, nb), LAMBDA nb2 : nb2[1] > atom[1])
         IN  [k \in 1..Len(nbs2) |-> <<atom[2], nb[2], nbs2[k][2]>>]

\* PathsVia that walks back through the root
PathsViaBacktrack(data, atom, nb) ==
    IF IsH(nb) \/ Lookup(data, nb) = <<atom>>
    THEN << <<atom[2], nb[2]>> >>
    ELSE LET nbs2 == Lookup(data, nb)
         IN  [k \in 1..Len(nbs2) |-> <<atom[2], nb[2], nbs2[k][2]>>]

\* PathsVia without the test for a leaf bonded only to the root
PathsViaNoLeaf(data, atom, nb) ==
    IF IsH(nb)
    THEN << <<atom[2], nb[2]>> >>
    ELSE LET nbs2 == SelectSeq(Lookup(data, nb), LAMBDA nb2 : nb2 # atom)
         IN  [k \in 1..Len(nbs2) |-> <<atom[2], nb[2], nbs2[k][2]>>]

\* the paths one neighbour nb of atom contributes
PathsVia(data, atom, nb) ==
    IF IsH(nb) \/ Lookup(data, nb) = <<atom>>
    THEN << <<atom[2], nb[2]>> >>
    ELSE LET nbs2 == SelectSeq(Lookup(data, nb), LAMBDA nb2 : nb2 # atom)
         IN  [k \in 1..Len(nbs2) |-> <<atom[2], nb[2], nbs2[k][2]>>]

PathsOf(data, atom, nbs) ==
    Flatten([k \in 1..Len(nbs) |-> PathsVia(data, atom, nbs[k])])

_collect_atom_paths(data) ==
    LET items == _non_h_items(data)
    IN  [k \in 1..Len(items) |-> PathsOf(data, items[k].key, items[k].val)]

(***************************************************************************)
(* Numbers.  A score is a rational combination of the logarithms (base 2)  *)
(* of the primes, sum over p of (n[p]/d) * log2(p), or one of the IEEE     *)
(* specials; since the log2(p) are linearly independent over the rationals *)
(* the normal form below is unique, so equality of scores is equality of   *)
(* records.  Rounding of the floating-point evaluation is not modelled.    *)
(***************************************************************************)
Primes == {p \in 2..LogLimit : \A q \in 2..(p - 1) : p % q # 0}

Abs(z) == IF z < 0 THEN -z ELSE z

RECURSIVE GCD(_, _)
GCD(a, b) == IF b = 0 THEN a ELSE GCD(b, a % b)

RECURSIVE GCDSet(_, _)
GCDSet(g, S) ==
    IF S = {} THEN g
    ELSE LET z == CHOOSE z \in S : TRUE IN GCDSet(GCD(g, Abs(z)), S \ {z})

ZeroVec == [p \in Primes |-> 0]

\* the finite score (sum over p of n[p] * log2(p)) / d in normal form, d > 0
Fin(n, d) ==
    LET g == GCDSet(d, {n[p] : p \in Primes})
    IN  [k |-> "fin", n |-> [p \in Primes |-> n[p] \div g], d |-> d \div g]

NaN    == [k |-> "nan",  n |-> ZeroVec, d |-> 1]
NegInf == [k |-> "-inf", n |-> ZeroVec, d |-> 1]
PosInf == [k |-> "inf",  n |-> ZeroVec, d |-> 1]

\* the rational a/b, as a score (log2(2) = 1)
Rational(a, b) == Fin([p \in Primes |-> IF p = 2 THEN a ELSE 0], b)

Zero == Rational(0, 1)

\* the exponent of the prime p in m >= 1
RECURSIVE Exponent(_, _)
Exponent(p, m) == IF m % p = 0 THEN 1 + Exponent(p, m \div p) ELSE 0

\* np.log2 of the fraction q = <<c, N>>, N > 0
log2(q) ==
    IF q[1] = 0 THEN NegInf
    ELSE Fin([p \in Primes |-> Exponent(p, q[1]) - Exponent(p, q[2])], 1)

\* the fraction q = <<c, N>> times the score v
Times(q, v) ==
    IF v.k = "fin" THEN Fin([p \in Primes |-> q[1] * v.n[p]], q[2] * v.d)
    ELSE IF v.k = "nan" \/ q[1] = 0 THEN NaN
    ELSE v

Add(a, b) ==
    IF a.k = "nan" \/ b.k = "nan" THEN NaN
    ELSE IF a.k = "fin" /\ b.k = "fin"
         THEN Fin([p \in Primes |-> a.n[p] * b.d + b.n[p] * a.d], a.d * b.d)
    ELSE IF a.k = "fin" THEN b
    ELSE IF b.k = "fin" \/ a.k = b.k THEN a
    ELSE NaN

Neg(a) ==
    IF a.k = "fin" THEN [a EXCEPT !.n = [p \in Primes |-> -a.n[p]]]
    ELSE IF a.k = "-inf" THEN PosInf
    ELSE IF a.k = "inf" THEN NegInf
    ELSE NaN

\* np.sum: the sum of no terms is 0
RECURSIVE Sum(_)
Sum(vs) == IF vs = <<>> THEN Zero ELSE Add(Head(vs), Sum(Tail(vs)))

\* the distinct values of data in order of first occurrence (Counter keys)
RECURSIVE Distinct(_)
Distinct(data) ==
    IF data = <<>> THEN <<>>
    ELSE <<Head(data)>> \o Distinct(SelectSeq(Tail(data), LAMBDA x : x # Head(data)))

\* a fraction in lowest terms
Frac(c, N) == <<c \div GCD(c, N), N \div GCD(c, N)>>

\* fractional_occurrence dividing by the number of distinct values
FractionOfKeys(data) ==
    LET keys   == Distinct(data)
        counts == [j \in 1..Len(keys) |-> Count(data, keys[j])]
    IN  [j \in 1..Len(counts) |-> Frac(counts[j], Len(keys))]

\* counts / len(data), one fraction per Counter key
fractional_occurrence(data) ==
    LET keys   == Distinct(data)
        counts == [j \in 1..Len(keys) |-> Count(data, keys[j])]
    IN  [j \in 1..Len(counts) |-> Frac(counts[j], Len(data))]

\* -np.sum(pi * np.log2(pi))
Entropy(pi) == Neg(Sum([j \in 1..Len(pi) |-> Times(pi[j], log2(pi[j]))]))

\* cas[i] = -np.sum(pi * np.log2(pi)) + np.log2(total_paths)
AtomComplexity(paths) ==
    LET total_paths == Len(paths)
        pi          == fractional_occurrence(paths)
    IN  Add(Entropy(pi), log2(<<total_paths, 1>>))

(***************************************************************************)
(* CM* = log2(sum(2**cas)) is not a rational combination of prime          *)
(* logarithms.  It is evaluated as an enclosure [lo, hi] in fixed point    *)
(* with FracBits fractional bits: every operation rounds lo down and hi up,*)
(* so the real value always lies between them.                             *)
(***************************************************************************)
\* fractional bits of the fixed-point enclosures
FracBits == 12

RECURSIVE Pow2(_)
Pow2(e) == IF e = 0 THEN 1 ELSE 2 * Pow2(e - 1)

FX == Pow2(FracBits)

CeilDiv(a, b) == -((-a) \div b)

FloorSqrt(v) == CHOOSE r \in 0..(2 * FX) : r * r <= v /\ (r + 1) * (r + 1) > v

CeilSqrt(v) == IF FloorSqrt(v) * FloorSqrt(v) = v THEN FloorSqrt(v) ELSE FloorSqrt(v) + 1

\* bounds of FX * 2^(1/2^j), j = 1..FracBits, by repeated square roots
RECURSIVE RootsLo(_)
RootsLo(j) ==
    IF j = 1 THEN <<FloorSqrt(2 * FX * FX)>>
    ELSE LET t == RootsLo(j - 1) IN Append(t, FloorSqrt(t[j - 1] * FX))

RECURSIVE RootsHi(_)
RootsHi(j) ==
    IF j = 1 THEN <<CeilSqrt(2 * FX * FX)>>
    ELSE LET t == RootsHi(j - 1) IN Append(t, CeilSqrt(t[j - 1] * FX))

RootLo == RootsLo(FracBits)

RootHi == RootsHi(FracBits)

\* bit j (weight 1/2^j) of the fraction r in 0..FX-1
Bit(r, j) == (r \div Pow2(FracBits - j)) % 2 = 1

\* bounds of FX * 2^(r/FX), from the bits j..FracBits of r
RECURSIVE Exp2FracLo(_, _)
Exp2FracLo(r, j) ==
    IF j > FracBits THEN FX
    ELSE IF Bit(r, j) THEN (Exp2FracLo(r, j + 1) * RootLo[j]) \div FX
    ELSE Exp2FracLo(r, j + 1)

RECURSIVE Exp2FracHi(_, _)
Exp2FracHi(r, j) ==
    IF j > FracBits THEN FX
    ELSE IF Bit(r, j) THEN CeilDiv(Exp2FracHi(r, j + 1) * RootHi[j], FX)
    ELSE Exp2FracHi(r, j + 1)

\* the tables of FX * 2^(r/FX), r in 0..FX-1
Exp2TableLo == [r \in 0..(FX - 1) |-> Exp2FracLo(r, 1)]

Exp2TableHi == [r \in 0..(FX - 1) |-> Exp2FracHi(r, 1)]

\* bounds of FX * 2^(x/FX)
Exp2Lo(x) ==
    LET q == x \div FX
        m == Exp2TableLo[x % FX]
    IN  IF q >= 0 THEN m * Pow2(q) ELSE m \div Pow2(-q)

Exp2Hi(x) ==
    LET q == x \div FX
        m == Exp2TableHi[x % FX]
    IN  IF q >= 0 THEN m * Pow2(q) ELSE CeilDiv(m, Pow2(-q))

\* the largest e with 2^e <= y \div FX, for y >= FX
RECURSIVE IntLog(_)
IntLog(y) == IF y < 2 * FX THEN 0 ELSE 1 + IntLog(y \div 2)

\* some x at or above cur with Exp2Hi(x) <= y, adding the bits j..FracBits greedily
RECURSIVE Greedy(_, _, _)
Greedy(y, cur, j) ==
    IF j > FracBits THEN cur
    ELSE LET t == cur + Pow2(FracBits - j)
         IN  IF Exp2Hi(t) <= y THEN Greedy(y, t, j + 1) ELSE Greedy(y, cur, j + 1)

RECURSIVE Bump(_, _)
Bump(y, x) == IF Exp2Lo(x) >= y THEN x ELSE Bump(y, x + 1)

\* bounds of FX * log2(y/FX), for y >= FX
Log2Lo(y) == Greedy(y, IntLog(y) * FX, 1)

Log2Hi(y) == Bump(y, Log2Lo(y))

PrimeLogLo == [p \in Primes |-> Log2Lo(p * FX)]

PrimeLogHi == [p \in Primes |-> Log2Hi(p * FX)]

RECURSIVE SumOver(_, _)
SumOver(f, S) ==
    IF S = {} THEN 0
    ELSE LET p == CHOOSE p \in S : TRUE IN f[p] + SumOver(f, S \ {p})

Iv(k, lo, hi) == [k |-> k, lo |-> lo, hi |-> hi]

\* the enclosure of a score
Enclose(v) ==
    IF v.k # "fin" THEN Iv(v.k, 0, 0)
    ELSE Iv("fin",
            SumOver([p \in Primes |-> IF v.n[p] >= 0 THEN v.n[p] * PrimeLogLo[p]
                                      ELSE v.n[p] * PrimeLogHi[p]], Primes) \div v.d,
            CeilDiv(SumOver([p \in Primes |-> IF v.n[p] >= 0 THEN v.n[p] * PrimeLogHi[p]
                                              ELSE v.n[p] * PrimeLogLo[p]], Primes), v.d))

\* 2**x
Exp2Iv(x) ==
    IF x.k = "fin" THEN Iv("fin", Exp2Lo(x.lo), Exp2Hi(x.hi))
    ELSE IF x.k = "-inf" THEN Iv("fin", 0, 0)
    ELSE Iv(x.k, 0, 0)

AddIv(a, b) ==
    IF a.k = "nan" \/ b.k = "nan" THEN Iv("nan", 0, 0)
    ELSE IF a.k = "fin" /\ b.k = "fin" THEN Iv("fin", a.lo + b.lo, a.hi + b.hi)
    ELSE IF a.k = "fin" THEN b
    ELSE IF b.k = "fin" \/ a.k = b.k THEN a
    ELSE Iv("nan", 0, 0)

RECURSIVE SumIv(_)
SumIv(xs) == IF xs = <<>> THEN Iv("fin", 0, 0) ELSE AddIv(Head(xs), SumIv(Tail(xs)))

\* np.log2 of a non-negative enclosure: log2(0) = -inf
Log2Iv(y) ==
    IF y.k # "fin" THEN y
    ELSE IF y.hi = 0 THEN Iv("-inf", 0, 0)
    ELSE Iv("fin", Log2Lo(y.lo), Log2Hi(y.hi))

\* LogSumExp without the exponential
LogSum(cs) == Log2Iv(SumIv([j \in 1..Len(cs) |-> Enclose(cs[j])]))

\* cm_star = np.log2(np.sum(2**cas))
LogSumExp(cs) == Log2Iv(SumIv([j \in 1..Len(cs) |-> Exp2Iv(Enclose(cs[j]))]))

(***************************************************************************)
(* sorted(paths): tuples compare lexicographically, a proper prefix first. *)
(***************************************************************************)
TypeKey(t) == <<SymRank(t[1]), t[2], t[3]>>

PathKey(path) == Flatten([k \in 1..Len(path) |-> TypeKey(path[k])])

RECURSIVE LexLess(_, _)
LexLess(a, b) ==
    IF b = <<>> THEN FALSE
    ELSE IF a = <<>> THEN TRUE
    ELSE IF Head(a) # Head(b) THEN Head(a) < Head(b)
    ELSE LexLess(Tail(a), Tail(b))

PathLess(x, y) == LexLess(PathKey(x), PathKey(y))

\* Insert that never compares
InsertFront(x, s) == <<x>> \o s

RECURSIVE Insert(_, _)
Insert(x, s) ==
    IF s = <<>> THEN <<x>>
    ELSE IF PathLess(x, Head(s)) THEN <<x>> \o s
    ELSE <<Head(s)>> \o Insert(x, Tail(s))

RECURSIVE sorted(_)
sorted(paths) == IF paths = <<>> THEN <<>> ELSE Insert(Head(paths), sorted(Tail(paths)))

\* Environments without the sort
Unsorted(aps) == aps

\* atom_environments = [tuple(sorted(paths)) for paths in atom_paths]
Environments(aps) == [k \in 1..Len(aps) |-> sorted(aps[k])]

(***************************************************************************)
(* The state machine: one call of molecular_complexity(smiles).            *)
(***************************************************************************)
Init ==
    /\ smiles \in Notations
    /\ pc = "start"
    /\ mol = NoMol
    /\ atoms = <<>>
    /\ neighbors = <<>>
    /\ atom_paths = <<>>
    /\ cas = <<>>
    /\ i = 1
    /\ cm = Zero
    /\ cm_star = Iv("fin", 0, 0)
    /\ atom_environments = <<>>
    /\ fo_called = FALSE
    /\ fo_data = <<>>
    /\ fo_ret = <<>>
    /\ result = <<>>

\* a failure result with a zero Cse
NaNButCse == <<NaN, Iv("nan", 0, 0), Zero>>

\* MolecularComplexity(np.nan, np.nan, np.nan)
NaNResult == <<NaN, Iv("nan", 0, 0), NaN>>

\* mol = Chem.MolFromSmiles(smiles); mol = Chem.AddHs(mol): a notation that
\* does not parse gives None, and adding hydrogens to None raises
Prepare ==
    /\ pc = "start"
    /\ mol' = smiles.graph
    /\ pc' = IF smiles.valid THEN "neighbors" ELSE "raised"
    /\ UNCHANGED <<smiles, atoms, neighbors, atom_paths, cas, i, cm, cm_star,
                   atom_environments, fo_called, fo_data, fo_ret, result>>

\* except Exception: return MolecularComplexity(np.nan, np.nan, np.nan)
HandleException ==
    /\ pc = "raised"
    /\ result' = NaNResult
    /\ pc' = "done"
    /\ UNCHANGED <<smiles, mol, atoms, neighbors, atom_paths, cas, i, cm, cm_star,
                   atom_environments, fo_called, fo_data, fo_ret>>

BuildNeighbors ==
    /\ pc = "neighbors"
    /\ atoms' = AtomList(mol)
    /\ neighbors' = NeighborDict(mol, atoms')
    /\ pc' = "paths"
    /\ UNCHANGED <<smiles, mol, atom_paths, cas, i, cm, cm_star,
                   atom_environments, fo_called, fo_data, fo_ret, result>>

\* atom_paths = _collect_atom_paths(neighbors); cas = np.zeros(len(atom_paths))
CollectAtomPaths ==
    /\ pc = "paths"
    /\ atom_paths' = _collect_atom_paths(neighbors)
    /\ cas' = [k \in 1..Len(atom_paths') |-> Zero]
    /\ i' = 1
    /\ pc' = "score"
    /\ UNCHANGED <<smiles, mol, atoms, neighbors, cm, cm_star,
                   atom_environments, fo_called, fo_data, fo_ret, result>>

\* one iteration of: for i, paths in enumerate(atom_paths)
ScoreAtom ==
    /\ pc = "score"
    /\ i <= Len(atom_paths)
    /\ fo_called' = TRUE
    /\ fo_data' = atom_paths[i]
    /\ fo_ret' = fractional_occurrence(atom_paths[i])
    /\ cas' = [cas EXCEPT ![i] = AtomComplexity(atom_paths[i])]
    /\ i' = i + 1
    /\ UNCHANGED <<pc, smiles, mol, atoms, neighbors, atom_paths, cm, cm_star,
                   atom_environments, result>>

\* cm = np.sum(cas); cm_star = np.log2(np.sum(2**cas))
Aggregate ==
    /\ pc = "score"
    /\ i > Len(atom_paths)
    /\ cm' = Sum(cas)
    /\ cm_star' = LogSumExp(cas)
    /\ pc' = "environments"
    /\ UNCHANGED <<smiles, mol, atoms, neighbors, atom_paths, cas, i,
                   atom_environments, fo_called, fo_data, fo_ret, result>>

SortEnvironments ==
    /\ pc = "environments"
    /\ atom_environments' = Environments(atom_paths)
    /\ pc' = "cse"
    /\ UNCHANGED <<smiles, mol, atoms, neighbors, atom_paths, cas, i, cm, cm_star,
                   fo_called, fo_data, fo_ret, result>>

\* qi = fractional_occurrence(atom_environments); cse = -np.sum(qi * np.log2(qi));
\* return MolecularComplexity(cm, cm_star, cse)
ComputeCse ==
    /\ pc = "cse"
    /\ fo_called' = TRUE
    /\ fo_data' = atom_environments
    /\ fo_ret' = fractional_occurrence(atom_environments)
    /\ result' = <<cm, cm_star, Entropy(fo_ret')>>
    /\ pc' = "done"
    /\ UNCHANGED <<smiles, mol, atoms, neighbors, atom_paths, cas, i, cm, cm_star,
                   atom_environments>>

Next ==
    \/ Prepare
    \/ HandleException
    \/ BuildNeighbors
    \/ CollectAtomPaths
    \/ ScoreAtom
    \/ Aggregate
    \/ SortEnvironments
    \/ ComputeCse

Spec == Init /\ [][Next]_vars

\* the whole of calculate_molecular_complexity(m), as the actions compute it
calculate_molecular_complexity(m) ==
    LET ats  == AtomList(m)
        nbs  == NeighborDict(m, ats)
        aps  == _collect_atom_paths(nbs)
        cs   == [k \in 1..Len(aps) |-> AtomComplexity(aps[k])]
        envs == Environments(aps)
    IN  <<Sum(cs), LogSumExp(cs), Entropy(fractional_occurrence(envs))>>

(***************************************************************************)
(* Properties.                                                             *)
(***************************************************************************)
Started == smiles.valid /\ pc \in {"score", "environments", "cse", "done"}

Returned == smiles.valid /\ pc = "done"

\* the indices of the non-hydrogen atoms of m, ascending
HeavyIdx(m) ==
    LET all == [k \in 1..NumAtoms(m) |-> k - 1]
    IN  SelectSeq(all, LAMBDA a : GetSymbol(m, a) # "H")

\* what the graph says neighbour b of atom a contributes
ExpectedVia(m, a, b) ==
    IF GetSymbol(m, b) = "H" \/ GetNeighbors(m, b) = <<a>>
    THEN << <<get_atom_type(m, a), get_atom_type(m, b)>> >>
    ELSE LET cs == SelectSeq(GetNeighbors(m, b), LAMBDA c : c # a)
         IN  [k \in 1..Len(cs) |->
                <<get_atom_type(m, a), get_atom_type(m, b), get_atom_type(m, cs[k])>>]

ExpectedPaths(m, a) ==
    Flatten([j \in 1..Len(GetNeighbors(m, a)) |-> ExpectedVia(m, a, GetNeighbors(m, a)[j])])

\* C1: _collect_atom_paths returns one path list per non-hydrogen atom, in atom
\* order, and none for hydrogens; the list of atom A is, neighbour B by
\* neighbour B in neighbour-list order, the one path (type A, type B) when B is
\* a hydrogen or B's neighbour list is exactly [A], and otherwise one path
\* (type A, type B, type C) per neighbour C of B other than A.
C1_PathsAsSpecified ==
    Started =>
        /\ Len(atom_paths) = Len(HeavyIdx(mol))
        /\ \A k \in 1..Len(atom_paths) :
              atom_paths[k] = ExpectedPaths(mol, HeavyIdx(mol)[k])

\* an atom with a length-2 path through a non-hydrogen leaf and a length-3 path
C1_Witness ==
    /\ Started
    /\ \E k \in 1..Len(atom_paths) :
          \E p, q \in Range(atom_paths[k]) :
              Len(p) = 2 /\ p[2][1] # "H" /\ Len(q) = 3

IsNaN(v) == v.k = "nan"

\* C2: when parsing or hydrogen addition fails, molecular_complexity still
\* returns, and returns NaN in all three fields; no returned result mixes NaN
\* and non-NaN fields.
C2_NaNTogether ==
    /\ pc = "raised" => ENABLED HandleException
    /\ pc = "done" /\ ~smiles.valid => \A f \in 1..3 : IsNaN(result[f])
    /\ pc = "done" =>
          ((\E f \in 1..3 : IsNaN(result[f])) => (\A f \in 1..3 : IsNaN(result[f])))

C2_Witness == pc = "done" /\ ~smiles.valid /\ IsNaN(result[1])

Bijections(S) == {f \in [S -> S] : \A x, y \in S : f[x] = f[y] => x = y}

\* the graph m with atom a renumbered to f[a]
Relabel(m, f) ==
    LET old(v) == CHOOSE a \in 0..(NumAtoms(m) - 1) : f[a] = v
    IN  [none |-> m.none,
         sym  |-> [k \in 1..NumAtoms(m) |-> GetSymbol(m, old(k - 1))],
         nbrs |-> [k \in 1..NumAtoms(m) |->
                     [j \in 1..Len(GetNeighbors(m, old(k - 1))) |->
                         f[GetNeighbors(m, old(k - 1))[j]]]]]

\* a multiset of paths, as the function from its elements to their counts
BagOf(s) == [x \in Range(s) |-> Count(s, x)]

PathsOfMol(m) == _collect_atom_paths(NeighborDict(m, AtomList(m)))

\* C3: renumbering the atoms of the graph by any bijection leaves the multiset
\* of per-atom path multisets, the multiset of atom environments, and CM, CM*
\* and Cse unchanged.
C3_PermutationInvariance ==
    Returned /\ NumAtoms(mol) <= MaxAtoms =>
        \A f \in Bijections(0..(NumAtoms(mol) - 1)) :
            LET aps == PathsOfMol(Relabel(mol, f))
            IN  /\ SameBag([k \in 1..Len(aps) |-> BagOf(aps[k])],
                           [k \in 1..Len(atom_paths) |-> BagOf(atom_paths[k])])
                /\ SameBag(Environments(aps), atom_environments)
                /\ calculate_molecular_complexity(Relabel(mol, f)) = result

\* a returned graph whose renumbering changes the order of the path lists
C3_Witness ==
    /\ Returned
    /\ NumAtoms(mol) <= MaxAtoms
    /\ Len(atom_paths) >= 2
    /\ \E f \in Bijections(0..(NumAtoms(mol) - 1)) :
          PathsOfMol(Relabel(mol, f)) # atom_paths

\* C4: for a non-empty sequence fractional_occurrence returns one fraction per
\* distinct value, equal to (occurrences of the value) / (length); the
\* fractions are strictly positive and sum to 1.
C4_FractionsOfCounts ==
    fo_called /\ fo_data # <<>> =>
        LET L == Len(fo_data) IN
        /\ Len(fo_ret) = Cardinality(Range(fo_data))
        /\ \A q \in Range(fo_ret) :
              /\ q[1] > 0 /\ q[2] > 0
              /\ Count(fo_ret, q) =
                    Cardinality({x \in Range(fo_data) : Count(fo_data, x) * q[2] = q[1] * L})
        /\ SumOver([j \in 1..Len(fo_ret) |-> fo_ret[j][1] * (L \div fo_ret[j][2])],
                   1..Len(fo_ret)) = L
        /\ \A j \in 1..Len(fo_ret) : L % fo_ret[j][2] = 0

\* a call with a repeated value and at least two distinct values
C4_Witness ==
    /\ fo_called
    /\ Len(fo_ret) >= 2
    /\ \E x \in Range(fo_data) : Count(fo_data, x) >= 2

\* C5: when all non-hydrogen atoms (at least one) have the same multiset of
\* paths, in whatever order each atom's paths were enumerated, Cse = 0.
C5_SymmetricCseZero ==
    Returned /\ Len(atom_paths) >= 1
             /\ (\A j, k \in 1..Len(atom_paths) : SameBag(atom_paths[j], atom_paths[k]))
        => result[3] = Zero

\* two atoms with the same paths enumerated in different orders
C5_Witness ==
    /\ Returned
    /\ Len(atom_paths) >= 2
    /\ \A j, k \in 1..Len(atom_paths) : SameBag(atom_paths[j], atom_paths[k])
    /\ \E j, k \in 1..Len(atom_paths) : atom_paths[j] # atom_paths[k]
    /\ result[3] = Zero

Scored == smiles.valid /\ pc \in {"environments", "cse", "done"}

FiniteCAs == {k \in 1..Len(cas) : cas[k].k = "fin"}

MaxOf(S) == CHOOSE x \in S : \A y \in S : y <= x

CarbonType == <<"C", 4, 2>>

HydrogenType == <<"H", 1, 1>>

\* C7: in the unsubstituted saturated ring of n carbons every carbon has 8
\* paths, 2 of (C,C,C), 4 of (C,C,H) and 2 of (C,H), and CA = 4.5; CM = 4.5 * n
\* and Cse = 0.
C7_SaturatedRings ==
    Returned /\ IsRing(mol) =>
        LET n == NumAtoms(mol) \div 3 IN
        /\ Len(atom_paths) = n
        /\ \A k \in 1..n :
              /\ Len(atom_paths[k]) = 8
              /\ Count(atom_paths[k], <<CarbonType, CarbonType, CarbonType>>) = 2
              /\ Count(atom_paths[k], <<CarbonType, CarbonType, HydrogenType>>) = 4
              /\ Count(atom_paths[k], <<CarbonType, HydrogenType>>) = 2
              /\ cas[k] = Rational(9, 2)
        /\ result[1] = Rational(9 * n, 2)
        /\ result[3] = Zero

\* cyclopropane has returned with CM = 13.5 and Cse = 0
C7_Witness ==
    /\ Returned
    /\ mol = RingMol(3)
    /\ result[1] = Rational(27, 2)
    /\ result[3] = Zero

\* C8: fractional_occurrence is never called with zero items.
C8_NeverEmpty == fo_called => Len(fo_data) >= 1

\* the paths the neighbours of the k-th non-hydrogen atom contribute
Contributions(k) ==
    LET it == _non_h_items(neighbors)[k]
    IN  [j \in 1..Len(it.val) |-> PathsVia(neighbors, it.key, it.val[j])]

\* C9: every non-hydrogen atom with a neighbour has a path; each neighbour B
\* contributes at least one, and exactly one when B is a hydrogen or a leaf
\* bonded only to the root; both atoms of an isolated diatomic fragment have
\* exactly one path.
C9_NeighborsContribute ==
    Started =>
        \A k \in 1..Len(atom_paths) :
            LET it == _non_h_items(neighbors)[k]
                cn == Contributions(k)
            IN  /\ atom_paths[k] = Flatten(cn)
                /\ Len(it.val) >= 1 => Len(atom_paths[k]) >= 1
                /\ \A j \in 1..Len(it.val) :
                      /\ Len(cn[j]) >= 1
                      /\ (IsH(it.val[j]) \/ Lookup(neighbors, it.val[j]) = <<it.key>>)
                            => Len(cn[j]) = 1
                /\ (Len(it.val) = 1 /\ Lookup(neighbors, it.val[1]) = <<it.key>>)
                      => Len(atom_paths[k]) = 1

\* a diatomic fragment of two non-hydrogen atoms, one path each
C9_Witness ==
    /\ Started
    /\ \E j, k \in 1..Len(atom_paths) :
          LET a == _non_h_items(neighbors)[j]
              b == _non_h_items(neighbors)[k]
          IN  /\ a.val = <<b.key>>
              /\ b.val = <<a.key>>
              /\ Len(atom_paths[j]) = 1
              /\ Len(atom_paths[k]) = 1

\* the graph m with the neighbour list of atom a replaced by p
Reordered(m, a, p) == [m EXCEPT !.nbrs[a + 1] = p]

\* C10: permuting the entries of any atom's neighbour list leaves every
\* non-hydrogen atom's multiset of paths, its fractional-occurrence
\* distribution and its environment, and CM, CM* and Cse, unchanged.
C10_OrderImmaterial ==
    Returned /\ NumAtoms(mol) <= MaxAtoms =>
        \A a \in 0..(NumAtoms(mol) - 1) :
            \A p \in PermSeqs(Range(GetNeighbors(mol, a))) :
                LET m2  == Reordered(mol, a, p)
                    aps == PathsOfMol(m2)
                IN  /\ Len(aps) = Len(atom_paths)
                    /\ \A k \in 1..Len(aps) :
                          /\ BagOf(aps[k]) = BagOf(atom_paths[k])
                          /\ BagOf(fractional_occurrence(aps[k]))
                                = BagOf(fractional_occurrence(atom_paths[k]))
                    /\ Environments(aps) = atom_environments
                    /\ calculate_molecular_complexity(m2) = result

\* a reordering that changes the order in which some atom's paths come
C10_Witness ==
    /\ Returned
    /\ NumAtoms(mol) <= MaxAtoms
    /\ \E a \in 0..(NumAtoms(mol) - 1) :
          \E p \in PermSeqs(Range(GetNeighbors(mol, a))) :
              PathsOfMol(Reordered(mol, a, p)) # atom_paths

====
